---- MODULE Spec2Model ----
(***************************************************************************)
(* dicefm/gom, install.go: the fetch / pin / build pipeline.               *)
(*                                                                         *)
(* Representation.  A Go string is kept as the sequence of the pieces the  *)
(* code cuts it into: an identity or a path at "/" (strings.Split(name,    *)
(* "/"), filepath.Join), a command line at " " (strings.Split(command,     *)
(* " ")).  "v1" is <<"v1">>, "a/b" is <<"a","b">>, "" is <<"">>.  An       *)
(* option value is <<"string", s>> or, for a value of another Go type (the *)
(* manifest's lists), <<"list", items>>.  An argv is a sequence of such    *)
(* strings.  The file system is the set of the paths that exist; a path    *)
(* whose last piece is in FileNames is a regular file, any other a         *)
(* directory.  An error is the position in log of the event that produced  *)
(* it, so that two errors are equal only when they are the same error.     *)
(***************************************************************************)
EXTENDS Integers, Sequences, FiniteSets, TLC

VARIABLES allGoms,   \* the manifest: parseGomfile's result (line 262)
          args,      \* install's extra arguments
          fs,        \* the paths that exist
          cwd,       \* the process working directory
          gopath,    \* the GOPATH environment variable (line 277)
          goms,      \* the filtered list, as positions in allGoms (line 283)
          pc,        \* where install is
          idx,       \* the position in goms of the running loop
          log,       \* every call, external command and return, in order
          ret        \* install's return value

vars == <<allGoms, args, fs, cwd, gopath, goms, pc, idx, log, ret>>

----------------------------------------------------------------------------
(* Bounds *)

MaxGoms == 2

----------------------------------------------------------------------------
(* Errors *)

Nil == 0
ErrUnsupportedVCS == -1
Panicked == -2

----------------------------------------------------------------------------
(* Strings, option values, paths *)

W(s) == <<s>>
Str(s) == <<"string", s>>
Tok(s) == <<"string", <<s>>>>
List(items) == <<"list", items>>
EmptyString == <<"">>

IsPrefix(p, q) == Len(p) <= Len(q) /\ SubSeq(q, 1, Len(p)) = p
Rel(q, p) == SubSeq(q, Len(p) + 1, Len(q))
Prefixes(p) == {SubSeq(p, 1, k) : k \in 1..Len(p)}
Last(p) == p[Len(p)]

FileNames == {"main.go"}
Markers == {".git", ".hg", ".bzr"}

vendorFolder == <<"_vendor">>
Join(p, q) == p \o q
SrcDir(id) == Join(Join(vendorFolder, <<"src">>), id)
ProjectDir == <<>>

Exists(f, p) == p = ProjectDir \/ p \in f
isDir(f, p) == Exists(f, p) /\ (p = ProjectDir \/ Last(p) \notin FileNames)

lower(c) ==
    CASE c = "TRUE" -> "true"
      [] c = "True" -> "true"
      [] c = "Yes" -> "yes"
      [] c = "NO" -> "no"
      [] OTHER -> c

ToLower(s) == [k \in 1..Len(s) |-> lower(s[k])]

Truthy == {"t", "true", "y", "yes", "on", "1"}
boolString(s) == Len(s) = 1 /\ s[1] \in Truthy

has(options, key) == key \in DOMAIN options
StringOk(options, key) == has(options, key) /\ options[key][1] = "string"
StringOf(options, key) == IF StringOk(options, key) THEN options[key][2] ELSE EmptyString

getTarget(gom) ==
    IF StringOk(gom.options, "target") THEN StringOf(gom.options, "target") ELSE gom.name

getForkPanics(gom) == has(gom.options, "fork") /\ ~StringOk(gom.options, "fork")

getFork(gom) ==
    IF has(gom.options, "fork") THEN gom.options["fork"][2] ELSE getTarget(gom)

----------------------------------------------------------------------------
(* Events and the running machine m = [fs, log, cwd] *)

Ev(ev, by, op, g, dir, argv, err) ==
    [ev |-> ev, by |-> by, op |-> op, gom |-> g, dir |-> dir, argv |-> argv, err |-> err,
     seen |-> {}]

Emit(m, e) == [m EXCEPT !.log = Append(@, e)]
Out(m, err) == [m |-> m, err |-> err]

\* a panic ends the process: it is logged where it is raised
Panic(m, by, op, g) == Out(Emit(m, Ev("panic", by, op, g, m.cwd, <<>>, Panicked)), Panicked)

----------------------------------------------------------------------------
(* The environment: what the external commands and the os calls do *)

Closure(p) == {q \in Prefixes(p) : TRUE}

\* The tree a successful fetch leaves at dir: the directory, a source file and
\* the control metadata of the repository's version-control system.
Fetched(f, dir, kind) ==
    f \cup Closure(dir) \cup {Join(dir, <<"main.go">>)}
      \cup (CASE kind = "git" -> {Join(dir, <<".git">>)}
              [] kind = "hg" -> {Join(dir, <<".hg">>)}
              [] kind = "bzr" -> {Join(dir, <<".bzr">>)}
              [] OTHER -> {})

\* run(argv, color): runs the command in the current directory; newfs is what
\* the command leaves when it succeeds.
run(m, by, op, g, argv, ok, newfs) ==
    LET n == Len(m.log) + 1
        e == Ev("run", by, op, g, m.cwd, argv, IF ok THEN Nil ELSE n)
    IN Out([m EXCEPT !.log = Append(@, e), !.fs = IF ok THEN newfs ELSE @],
           IF ok THEN Nil ELSE n)

\* os.Stat(p): "" for a nil error, ENOENT for a path that does not exist; no
\* error of Stat satisfies os.IsExist
Stat(f, p) == IF Exists(f, p) THEN "" ELSE "ENOENT"
IsExist(e) == e \in {"EEXIST", "ENOTEMPTY"}

\* mustCopyDir(dst, src): the recursive copy; a copy that fails part way has
\* made dst and nothing under it.  The event keeps, in seen, the paths that
\* existed under src when the copy began.
mustCopyDir(m, op, g, dst, src, ok) ==
    LET n == Len(m.log) + 1
        good == ok /\ isDir(m.fs, src)
        tree == {Join(dst, Rel(q, src)) : q \in {x \in m.fs : IsPrefix(src, x)}}
        made == IF good THEN m.fs \cup Closure(dst) \cup tree
                ELSE IF isDir(m.fs, src) THEN m.fs \cup Closure(dst) ELSE m.fs
        e == [Ev("copy", "mustCopyDir", op, g, m.cwd, <<dst, src>>, IF good THEN Nil ELSE n)
                EXCEPT !.seen = {x \in m.fs : IsPrefix(src, x)}]
    IN Out([m EXCEPT !.log = Append(@, e), !.fs = made], IF good THEN Nil ELSE n)

\* os.RemoveAll(p): removes p and everything under it; nil when p is absent
RemoveAll(m, op, g, p, ok) ==
    LET n == Len(m.log) + 1
        e == Ev("rm", "RemoveAll", op, g, m.cwd, <<p>>, IF ok THEN Nil ELSE n)
    IN Out([m EXCEPT !.log = Append(@, e),
                     !.fs = IF ok THEN {q \in @ : ~IsPrefix(p, q)} ELSE @],
           IF ok THEN Nil ELSE n)

----------------------------------------------------------------------------
(* vcsCmd *)

hg == [checkout |-> <<W("hg"), W("update")>>, update |-> <<W("hg"), W("pull")>>]
git == [checkout |-> <<W("git"), W("checkout"), W("-q")>>, update |-> <<W("git"), W("fetch")>>]
bzr == [checkout |-> <<W("bzr"), W("revert"), W("-r")>>, update |-> <<W("bzr"), W("pull")>>]
NoVcs == [checkout |-> <<>>, update |-> <<>>]

\* vcsExec without the deferred os.Chdir(cwd)
vcsExecStaysThere(m, by, op, g, dir, argv, ok) ==
    LET n == Len(m.log) + 1
    IN IF ~isDir(m.fs, dir)
       THEN Out(Emit(m, Ev("chdir", by, op, g, dir, argv, n)), n)
       ELSE LET inside == [m EXCEPT !.cwd = dir]
            IN Out(Emit(inside, Ev("exec", by, op, g, inside.cwd, argv,
                                   IF ok THEN Nil ELSE n)),
                   IF ok THEN Nil ELSE n)

\* os.Getwd returns the working directory, which is ProjectDir between two
\* calls and always exists; os.Chdir(dir) fails when dir is no directory; the
\* deferred os.Chdir(cwd) puts the working directory back on both returns.
vcsExec(m, by, op, g, dir, argv, ok) ==
    LET n == Len(m.log) + 1
        saved == m.cwd
    IN IF ~isDir(m.fs, dir)
       THEN Out(Emit(m, Ev("chdir", by, op, g, dir, argv, n)), n)
       ELSE LET inside == [m EXCEPT !.cwd = dir]
                ran == Emit(inside, Ev("exec", by, op, g, inside.cwd, argv,
                                       IF ok THEN Nil ELSE n))
            IN Out([ran EXCEPT !.cwd = saved], IF ok THEN Nil ELSE n)

vcsCheckout(vcs, m, op, g, p, destination, ok) ==
    vcsExec(m, "vcs.Checkout", op, g, p, Append(vcs.checkout, destination), ok)

vcsUpdate(vcs, m, op, g, p, ok) ==
    vcsExec(m, "vcs.Update", op, g, p, vcs.update, ok)

\* Sync that always updates before it checks out
SyncEager(vcs, m, op, g, p, destination, o) ==
    LET u == vcsUpdate(vcs, m, op, g, p, o.up)
    IN IF u.err # Nil THEN u ELSE vcsCheckout(vcs, u.m, op, g, p, destination, o.ck1)

\* Sync that returns the first Checkout's error when the retry fails too
SyncKeepsFirstError(vcs, m, op, g, p, destination, o) ==
    LET c1 == vcsCheckout(vcs, m, op, g, p, destination, o.ck1)
    IN IF c1.err # Nil
       THEN LET u == vcsUpdate(vcs, c1.m, op, g, p, o.up)
                c2 == vcsCheckout(vcs, u.m, op, g, p, destination, o.ck2)
            IN IF u.err # Nil
               THEN u
               ELSE IF c2.err # Nil THEN Out(c2.m, c1.err) ELSE c2
       ELSE c1

\* Sync that retries the Checkout whatever the Update returned
SyncRetriesAfterFailedUpdate(vcs, m, op, g, p, destination, o) ==
    LET c1 == vcsCheckout(vcs, m, op, g, p, destination, o.ck1)
    IN IF c1.err # Nil
       THEN LET u == vcsUpdate(vcs, c1.m, op, g, p, o.up)
            IN vcsCheckout(vcs, u.m, op, g, p, destination, o.ck2)
       ELSE c1

Sync(vcs, m, op, g, p, destination, o) ==
    LET c1 == vcsCheckout(vcs, m, op, g, p, destination, o.ck1)
    IN IF c1.err # Nil
       THEN LET u == vcsUpdate(vcs, c1.m, op, g, p, o.up)
            IN IF u.err # Nil
               THEN u
               ELSE vcsCheckout(vcs, u.m, op, g, p, destination, o.ck2)
       ELSE c1

----------------------------------------------------------------------------
(* Gom.Checkout, Gom.Build *)

\* the three options read in the opposite order: branch overrides tag overrides commit
BranchOverrides(gom) ==
    LET r0 == EmptyString
        r1 == IF has(gom.options, "commit") THEN StringOf(gom.options, "commit") ELSE r0
        r2 == IF has(gom.options, "tag") THEN StringOf(gom.options, "tag") ELSE r1
    IN IF has(gom.options, "branch") THEN StringOf(gom.options, "branch") ELSE r2

commit_or_branch_or_tag(gom) ==
    LET r0 == EmptyString
        r1 == IF has(gom.options, "branch") THEN StringOf(gom.options, "branch") ELSE r0
        r2 == IF has(gom.options, "tag") THEN StringOf(gom.options, "tag") ELSE r1
    IN IF has(gom.options, "commit") THEN StringOf(gom.options, "commit") ELSE r2

VcsAt(f, p) ==
    IF isDir(f, Join(p, <<".git">>)) THEN git
    ELSE IF isDir(f, Join(p, <<".hg">>)) THEN hg
    ELSE IF isDir(f, Join(p, <<".bzr">>)) THEN bzr
    ELSE NoVcs

\* the walk that keeps the last element at which a vcs is found
FoundAtDeepest(f, name) ==
    LET hits == {k \in 1..Len(name) : VcsAt(f, SrcDir(SubSeq(name, 1, k))) # NoVcs}
    IN IF hits = {} THEN 0 ELSE CHOOSE k \in hits : \A j \in hits : k >= j

\* the first element of strings.Split(gom.name, "/") at which a vcs is found, 0 if none
FoundAt(f, name) ==
    LET hits == {k \in 1..Len(name) : VcsAt(f, SrcDir(SubSeq(name, 1, k))) # NoVcs}
    IN IF hits = {} THEN 0 ELSE CHOOSE k \in hits : \A j \in hits : k <= j

\* Checkout that takes a directory without control metadata for a git one
CheckoutAssumesGit(gom, g, m, o) ==
    LET rev == commit_or_branch_or_tag(gom)
        k == FoundAt(m.fs, gom.name)
    IN IF rev = EmptyString
       THEN Out(m, Nil)
       ELSE Sync(IF k # 0 THEN VcsAt(m.fs, SrcDir(SubSeq(gom.name, 1, k))) ELSE git,
                 m, "Checkout", g, SrcDir(gom.name), rev, o)

Checkout(gom, g, m, o) ==
    LET rev == commit_or_branch_or_tag(gom)
        k == FoundAt(m.fs, gom.name)
    IN IF rev = EmptyString
       THEN Out(m, Nil)
       ELSE IF k # 0
            THEN Sync(VcsAt(m.fs, SrcDir(SubSeq(gom.name, 1, k))), m, "Checkout", g,
                      SrcDir(gom.name), rev, o)
            ELSE Out(m, ErrUnsupportedVCS)

Build(gom, g, a, m, ok) ==
    vcsExec(m, "Build", "Build", g, SrcDir(gom.name), <<W("go"), W("install")>> \o a, ok)

----------------------------------------------------------------------------
(* Gom.Clone *)

pullPrivate(gom, g, m, srcdir, ok) ==
    run(m, "pullPrivate", "Clone", g,
        <<W("git"), Join(Join(<<"--work-tree=">>, srcdir), <<",">>),
          Join(Join(<<"--git-dir=">>, srcdir), <<".git">>), W("pull"), W("origin")>>,
        ok, m.fs)

privateUrl(gom, useHttps) ==
    IF useHttps
    THEN Join(Join(<<"https://">>, gom.name), <<".git">>)
    ELSE <<"git@", gom.name[1], ":", gom.name[2], gom.name[3]>>

clonePrivate(gom, g, m, srcdir, useHttps, ok) ==
    IF ~useHttps /\ Len(gom.name) < 3
    THEN Panic(m, "clonePrivate", "Clone", g)
    ELSE run(m, "clonePrivate", "Clone", g,
             <<W("git"), W("clone"), privateUrl(gom, useHttps), srcdir>>,
             ok, Fetched(m.fs, srcdir, "git"))

\* lines 106-137: the custom command, or the private repository
FetchStep(gom, g, m, ok) ==
    LET name == getFork(gom)
        srcdir == SrcDir(name)
        useHttps == StringOk(gom.options, "https")
                      /\ boolString(ToLower(StringOf(gom.options, "https")))
    IN IF StringOk(gom.options, "command")
       THEN run(m, "command", "Clone", g,
                Append(StringOf(gom.options, "command"), srcdir),
                ok, Fetched(m.fs, srcdir, "none"))
       ELSE IF StringOk(gom.options, "private")
                 /\ boolString(ToLower(StringOf(gom.options, "private")))
                 /\ Stat(m.fs, srcdir) # ""
            THEN IF IsExist(Stat(m.fs, srcdir))
                 THEN pullPrivate(gom, g, m, srcdir, ok)
                 ELSE clonePrivate(gom, g, m, srcdir, useHttps, ok)
            ELSE Out(m, Nil)

\* the move that deletes the fork directory whatever the copy returned
RelocateAlwaysDeletes(gom, g, m, o) ==
    LET tag == getTarget(gom)
        src == SrcDir(getFork(gom))
        dst == SrcDir(tag)
        c == mustCopyDir(m, "Clone", g, dst, src, o.copy)
        r == RemoveAll(c.m, "Clone", g, src, o.rm)
    IN IF c.err # Nil THEN Out(r.m, c.err) ELSE r

\* lines 146-162: the move from fork to target
Relocate(gom, g, m, o) ==
    LET tag == getTarget(gom)
        src == SrcDir(getFork(gom))
        dst == SrcDir(tag)
        c == mustCopyDir(m, "Clone", g, dst, src, o.copy)
    IN IF c.err # Nil THEN c ELSE RemoveAll(c.m, "Clone", g, src, o.rm)

\* Clone that goes on to the default fetch after a failed custom or private step
CloneIgnoresStepError(gom, g, a, m, o) ==
    IF getForkPanics(gom)
    THEN Panic(m, "getFork", "Clone", g)
    ELSE LET name == getFork(gom)
             s == FetchStep(gom, g, m, o.step)
             cmdArgs == Append(<<W("go"), W("get"), W("-d")>> \o a, name)
             f == run(s.m, "fetch", "Clone", g, cmdArgs, o.fetch # "fail",
                      Fetched(s.m.fs, SrcDir(name), o.fetch))
             result == f.err
         IN IF s.err = Panicked
            THEN s
            ELSE IF has(gom.options, "fork")
                 THEN LET r == Relocate(gom, g, f.m, o)
                      IN IF r.err # Nil THEN r ELSE Out(r.m, result)
                 ELSE Out(f.m, result)

Clone(gom, g, a, m, o) ==
    IF getForkPanics(gom)
    THEN Panic(m, "getFork", "Clone", g)
    ELSE LET name == getFork(gom)
             s == FetchStep(gom, g, m, o.step)
             cmdArgs == Append(<<W("go"), W("get"), W("-d")>> \o a, name)
             f == run(s.m, "fetch", "Clone", g, cmdArgs, o.fetch # "fail",
                      Fetched(s.m.fs, SrcDir(name), o.fetch))
             result == f.err
         IN IF s.err # Nil
            THEN s
            ELSE IF has(gom.options, "fork")
                 THEN LET r == Relocate(gom, g, f.m, o)
                      IN IF r.err # Nil THEN r ELSE Out(r.m, result)
                 ELSE Out(f.m, result)

----------------------------------------------------------------------------
(* install *)

ActiveGroups == {"development"}
ThisOS == "linux"
Items(v) == {v[2][k] : k \in 1..Len(v[2])}
matchEnv(group) == Items(group) \cap ActiveGroups # {}
matchOS(goos) == ThisOS \in Items(goos)

\* the filter with the two tests joined by "or"
KeepIfEitherMatches(gom) ==
    \/ has(gom.options, "group") => matchEnv(gom.options["group"])
    \/ has(gom.options, "goos") => matchOS(gom.options["goos"])

Keep(gom) ==
    /\ has(gom.options, "group") => matchEnv(gom.options["group"])
    /\ has(gom.options, "goos") => matchOS(gom.options["goos"])

RECURSIVE Filter(_, _)
Filter(all, k) ==
    IF k > Len(all) THEN <<>>
    ELSE IF Keep(all[k]) THEN <<k>> \o Filter(all, k + 1)
    ELSE Filter(all, k + 1)

ToReturn(err) ==
    /\ pc' = "done"
    /\ ret' = err

\* the loops with an off-by-one bound: the last dependency is skipped
FinishSkipsLast(r, op, after) ==
    LET g == goms[idx]
    IN /\ fs' = r.m.fs
       /\ cwd' = r.m.cwd
       /\ UNCHANGED <<allGoms, args, gopath, goms>>
       /\ IF r.err = Panicked
          THEN /\ log' = r.m.log
               /\ pc' = "panicked"
               /\ UNCHANGED <<idx, ret>>
          ELSE /\ log' = Append(r.m.log, Ev("ret", op, op, g, r.m.cwd, <<>>, r.err))
               /\ IF r.err # Nil
                  THEN ToReturn(r.err) /\ UNCHANGED idx
                  ELSE IF idx + 1 < Len(goms)
                       THEN idx' = idx + 1 /\ UNCHANGED <<pc, ret>>
                       ELSE IF after = "done"
                            THEN ToReturn(Nil) /\ UNCHANGED idx
                            ELSE idx' = 1 /\ pc' = after /\ UNCHANGED ret

\* the loops going on after an error, which only the last call's result reports
FinishContinues(r, op, after) ==
    LET g == goms[idx]
    IN /\ fs' = r.m.fs
       /\ cwd' = r.m.cwd
       /\ UNCHANGED <<allGoms, args, gopath, goms>>
       /\ IF r.err = Panicked
          THEN /\ log' = r.m.log
               /\ pc' = "panicked"
               /\ UNCHANGED <<idx, ret>>
          ELSE /\ log' = Append(r.m.log, Ev("ret", op, op, g, r.m.cwd, <<>>, r.err))
               /\ IF idx < Len(goms)
                  THEN idx' = idx + 1 /\ UNCHANGED <<pc, ret>>
                  ELSE IF after = "done"
                       THEN ToReturn(r.err) /\ UNCHANGED idx
                       ELSE idx' = 1 /\ pc' = after /\ UNCHANGED ret

\* after the call of op on goms[idx] ended with r: the loop goes on, the next
\* loop starts, or install returns
Finish(r, op, after) ==
    LET g == goms[idx]
    IN /\ fs' = r.m.fs
       /\ cwd' = r.m.cwd
       /\ UNCHANGED <<allGoms, args, gopath, goms>>
       /\ IF r.err = Panicked
          THEN /\ log' = r.m.log
               /\ pc' = "panicked"
               /\ UNCHANGED <<idx, ret>>
          ELSE /\ log' = Append(r.m.log, Ev("ret", op, op, g, r.m.cwd, <<>>, r.err))
               /\ IF r.err # Nil
                  THEN ToReturn(r.err) /\ UNCHANGED idx
                  ELSE IF idx < Len(goms)
                       THEN idx' = idx + 1 /\ UNCHANGED <<pc, ret>>
                       ELSE IF after = "done"
                            THEN ToReturn(Nil) /\ UNCHANGED idx
                            ELSE idx' = 1 /\ pc' = after /\ UNCHANGED ret

\* the call event keeps, in seen, the paths that exist when the call is made
Called(op) ==
    [fs |-> fs, cwd |-> cwd,
     log |-> Append(log, [Ev("call", op, op, goms[idx], cwd, <<>>, Nil) EXCEPT !.seen = fs])]

\* lines 261-296: the workspace, GOPATH, the filter
Begin ==
    /\ pc = "start"
    /\ UNCHANGED <<allGoms, args, cwd, idx>>
    /\ \E ok \in BOOLEAN :
         IF Stat(fs, vendorFolder) # "" /\ ~ok
         THEN /\ log' = Append(log, Ev("mkdir", "install", "install", 0, cwd,
                                       <<vendorFolder>>, Len(log) + 1))
              /\ ToReturn(Len(log) + 1)
              /\ UNCHANGED <<fs, gopath, goms>>
         ELSE /\ fs' = fs \cup Closure(vendorFolder)
              /\ gopath' = vendorFolder
              /\ goms' = Filter(allGoms, 1)
              /\ log' = log
              /\ IF Filter(allGoms, 1) = <<>>
                 THEN ToReturn(Nil)
                 ELSE pc' = "clone" /\ UNCHANGED ret

FetchOutcomes == {"fail", "none", "git", "hg", "bzr"}
CloneOracle == [step : BOOLEAN, fetch : FetchOutcomes, copy : BOOLEAN, rm : BOOLEAN]
SyncOracle == [ck1 : BOOLEAN, up : BOOLEAN, ck2 : BOOLEAN]

\* lines 298-304
CloneStep ==
    /\ pc = "clone"
    /\ \E o \in CloneOracle :
         Finish(Clone(allGoms[goms[idx]], goms[idx], args, Called("Clone"), o),
                "Clone", "checkout")

\* lines 306-312
CheckoutStep ==
    /\ pc = "checkout"
    /\ \E o \in SyncOracle :
         Finish(Checkout(allGoms[goms[idx]], goms[idx], Called("Checkout"), o),
                "Checkout", "build")

\* lines 314-322
BuildStep ==
    /\ pc = "build"
    /\ \E ok \in BOOLEAN :
         Finish(Build(allGoms[goms[idx]], goms[idx], args, Called("Build"), ok),
                "Build", "done")

Next == Begin \/ CloneStep \/ CheckoutStep \/ BuildStep

----------------------------------------------------------------------------
(* The manifests, workspaces and arguments the model runs install on *)

NoOptions == [k \in {} |-> Tok("")]
Opt(key, values) == {NoOptions} \cup {key :> v : v \in values}
Cross(A, B) == {a @@ b : a \in A, b \in B}
Goms(names, optionSets) == {[name |-> n, options |-> o] : n \in names, o \in optionSets}

AB == <<"a", "b">>
ABC == <<"a", "b", "c">>
XY == <<"x", "y">>

RevOptions ==
    Cross(Opt("branch", {Tok("br")}),
          Cross(Opt("tag", {Tok("tg"), List(<<"tg">>)}),
                Opt("commit", {Tok("cm"), Str(EmptyString)})))

RevFamily == Goms({AB}, Cross(RevOptions, Opt("target", {Str(XY)})))

PrivateOptions ==
    Opt("private", {Tok("no"), Tok("maybe")})
      \cup Cross({"private" :> Tok("TRUE")}, Opt("https", {Tok("Yes"), Tok("maybe")}))

FetchFamily ==
    Goms({AB, ABC},
         PrivateOptions
           \cup Cross({"command" :> Str(<<"fetch", "-q">>)}, Opt("private", {Tok("true")}))
           \cup {("command" :> List(<<"fetch">>)) @@ ("private" :> Tok("true"))})

ForkOptions ==
    Cross({"fork" :> v : v \in {Str(XY), Str(<<"a">>), Str(AB), List(<<"x">>)}},
          Opt("target", {Str(XY), Str(<<"a">>)}))

RelocFamily ==
    Goms({AB}, Cross(ForkOptions,
                     {NoOptions, "tag" :> Tok("tg"), "command" :> Str(<<"fetch">>)}))

FilterFamily ==
    Goms({AB},
         Cross(Cross(Opt("group", {Tok("development"), Tok("test"),
                                   List(<<"test", "development">>)}),
                     Opt("goos", {Tok("linux"), Tok("windows")})),
               {NoOptions, ("tag" :> Tok("tg")) @@ ("fork" :> Str(XY))}))

GomPool == RevFamily \cup FetchFamily \cup RelocFamily \cup FilterFamily

\* the dependencies the manifests of several are made of
SmallPool ==
    { [name |-> AB, options |-> NoOptions],
      [name |-> AB, options |-> "tag" :> Tok("tg")],
      [name |-> XY, options |-> "fork" :> Str(AB)],
      [name |-> ABC, options |-> ("group" :> Tok("test")) @@ ("branch" :> Tok("br"))],
      [name |-> XY, options |-> ("goos" :> Tok("linux")) @@ ("commit" :> Tok("cm"))] }

RECURSIVE Seqs(_, _)
Seqs(S, n) == IF n = 0 THEN {<<>>} ELSE {Append(q, x) : q \in Seqs(S, n - 1), x \in S}

Manifests == UNION {Seqs(SmallPool, n) : n \in 2..MaxGoms}

NoWorkspace == {}
FsPool ==
    { NoWorkspace,
      Closure(SrcDir(<<"a">>)) \cup {SrcDir(<<"a", ".hg">>)},
      Fetched(Fetched({}, SrcDir(AB), "hg"), SrcDir(AB), "bzr"),
      Fetched({}, SrcDir(XY), "bzr") \cup Closure(SrcDir(ABC)) }

ArgsPool == {<<>>, <<W("-u")>>}

Start(manifest, a, f) ==
    /\ allGoms = manifest
    /\ args = a
    /\ fs = f
    /\ cwd = ProjectDir
    /\ gopath = <<>>
    /\ goms = <<>>
    /\ pc = "start"
    /\ idx = 1
    /\ log = <<>>
    /\ ret = Nil

Init ==
    \/ \E gom \in GomPool, a \in ArgsPool, f \in FsPool : Start(<<gom>>, a, f)
    \/ \E manifest \in Manifests : Start(manifest, <<W("-u")>>, NoWorkspace)
    \/ Start(<<>>, <<>>, NoWorkspace)

Spec == Init /\ [][Next]_vars

----------------------------------------------------------------------------
(* Reading the log *)

Calls(op) == {k \in DOMAIN log : log[k].ev = "call" /\ log[k].op = op}
Ended(k) == log[k].ev \in {"ret", "panic"}
EndOf(k) == CHOOSE j \in DOMAIN log : j > k /\ Ended(j) /\ \A i \in (k + 1)..(j - 1) : ~Ended(i)
Inside(k) == (k + 1)..(EndOf(k) - 1)
By(k, who) == {i \in Inside(k) : log[i].by \in who}
Min(S) == CHOOSE x \in S : \A y \in S : x <= y
Max(S) == CHOOSE x \in S : \A y \in S : x >= y
Returned(op, g) ==
    {j \in DOMAIN log : log[j].ev = "ret" /\ log[j].op = op /\ log[j].gom = g /\ log[j].err = Nil}

\* the dependencies of the manifest that pass the filter of section 4.6, step 1
Surviving ==
    {g \in DOMAIN allGoms :
        /\ ("group" \in DOMAIN allGoms[g].options => matchEnv(allGoms[g].options["group"]))
        /\ ("goos" \in DOMAIN allGoms[g].options => matchOS(allGoms[g].options["goos"]))}

----------------------------------------------------------------------------
(* C1: in install no Checkout starts before Clone has returned nil for every
   surviving dependency, no Build starts before Checkout has returned nil for
   every surviving dependency, and each phase takes the dependencies in
   manifest order. *)
C1_PhasesSequential ==
    /\ \A k \in Calls("Checkout") :
          \A g \in Surviving : \E j \in Returned("Clone", g) : j < k
    /\ \A k \in Calls("Build") :
          \A g \in Surviving : \E j \in Returned("Checkout", g) : j < k
    /\ \A op \in {"Clone", "Checkout", "Build"} :
          \A k1, k2 \in Calls(op) : k1 < k2 => log[k1].gom < log[k2].gom

C1_Witness ==
    /\ Cardinality(Surviving) >= 2
    /\ Cardinality(Calls("Build")) >= 2

(* C2: when a Clone, Checkout or Build call returns an error, install returns
   exactly that error, and nothing is executed after that return: no further
   call, no command, no removal.  Nothing is ever removed but the fork
   directory of the dependency being cloned: there is no rollback. *)
C2_FirstErrorHalts ==
    /\ \A k \in DOMAIN log :
          (log[k].ev = "ret" /\ log[k].err # Nil) =>
              /\ k = Len(log)
              /\ pc = "done"
              /\ ret = log[k].err
    /\ (pc = "done" /\ ret # Nil) =>
          /\ log # <<>>
          /\ log[Len(log)].err = ret
          /\ log[Len(log)].ev \in {"ret", "mkdir"}
    /\ \A k \in DOMAIN log :
          log[k].ev = "rm" =>
              /\ log[k].op = "Clone"
              /\ "fork" \in DOMAIN allGoms[log[k].gom].options
              /\ log[k].argv = <<SrcDir(allGoms[log[k].gom].options["fork"][2])>>

\* Checkout of the first dependency fails after both were cloned: the second is
\* neither pinned nor built, and what the Clones made is still there
C2_Witness ==
    /\ pc = "done" /\ ret # Nil
    /\ Cardinality(Surviving) >= 2
    /\ \A g \in Surviving : Returned("Clone", g) # {}
    /\ Cardinality(Calls("Checkout")) = 1
    /\ Calls("Build") = {}
    /\ \A g \in Surviving : SrcDir(allGoms[g].name) \in fs

(* C3: a Sync whose first Checkout succeeds invokes no Update and performs
   exactly one Checkout, whichever of git, hg and bzr it is. *)
C3_SyncNoUpdateWhenPresent ==
    \A k \in Calls("Checkout") :
        LET cs == By(k, {"vcs.Checkout"})
        IN (cs # {} /\ log[Min(cs)].err = Nil) =>
              /\ By(k, {"vcs.Update"}) = {}
              /\ Cardinality(cs) = 1

\* two Syncs of different variants, each with its revision already there
C3_Witness ==
    \E k1, k2 \in Calls("Checkout") :
        /\ log[k1 + 1].ev = "exec" /\ log[k1 + 1].err = Nil
        /\ log[k2 + 1].ev = "exec" /\ log[k2 + 1].err = Nil
        /\ log[k1 + 1].argv[1] = W("hg")
        /\ log[k2 + 1].argv[1] = W("bzr")

(* C4, as stated: a Sync whose first Checkout fails invokes Update exactly
   once and then retries Checkout exactly once; if both Checkouts fail, Sync
   returns the error of the retried one. *)
C4_Original ==
    \A k \in Calls("Checkout") :
        LET cs == By(k, {"vcs.Checkout"})
            us == By(k, {"vcs.Update"})
        IN (cs # {} /\ log[Min(cs)].err # Nil) =>
              /\ Cardinality(us) = 1
              /\ Cardinality(cs) = 2
              /\ \A u \in us : Min(cs) < u /\ u < Max(cs)
              /\ log[Max(cs)].err # Nil => log[EndOf(k)].err = log[Max(cs)].err

(* C4, amended: a Sync whose first Checkout fails invokes Update exactly once;
   when that Update succeeds it retries Checkout exactly once and returns the
   retry's result, so that if both Checkouts fail the error returned is the
   retried one's; when the Update fails, Checkout is not retried and Sync
   returns Update's error. *)
C4_Amended ==
    \A k \in Calls("Checkout") :
        LET cs == By(k, {"vcs.Checkout"})
            us == By(k, {"vcs.Update"})
        IN (cs # {} /\ log[Min(cs)].err # Nil) =>
              /\ Cardinality(us) = 1
              /\ \A u \in us :
                    /\ Min(cs) < u
                    /\ log[u].err = Nil =>
                          /\ Cardinality(cs) = 2
                          /\ u < Max(cs)
                          /\ log[EndOf(k)].err = log[Max(cs)].err
                    /\ log[u].err # Nil =>
                          /\ Cardinality(cs) = 1
                          /\ log[EndOf(k)].err = log[u].err

\* both Checkouts failed around a successful Update
C4_Witness ==
    \E k \in Calls("Checkout") :
        LET cs == By(k, {"vcs.Checkout"})
        IN /\ Cardinality(cs) = 2
           /\ log[Min(cs)].err # Nil
           /\ log[Max(cs)].err # Nil
           /\ log[Max(cs)].ev = "exec"
           /\ ret = log[Max(cs)].err

\* the claims' reading of a dependency's options
Set(gom, key) == key \in DOMAIN gom.options
PlainValue(gom, key) ==
    Set(gom, key) => (gom.options[key][1] = "string" /\ gom.options[key][2] # EmptyString)
TargetIdentity(gom) == IF Set(gom, "target") THEN gom.options["target"][2] ELSE gom.name
FetchedIdentity(gom) == IF Set(gom, "fork") THEN gom.options["fork"][2] ELSE TargetIdentity(gom)

(* C5: with non-empty string values, Checkout pins to the commit if commit is
   set, else to the tag if tag is set, else to the branch; with none of the
   three set it returns nil and attempts nothing. *)
C5_RevisionPrecedence ==
    \A k \in Calls("Checkout") :
        LET gom == allGoms[log[k].gom]
            wanted == IF Set(gom, "commit") THEN gom.options["commit"][2]
                      ELSE IF Set(gom, "tag") THEN gom.options["tag"][2]
                      ELSE gom.options["branch"][2]
        IN (\A key \in {"branch", "tag", "commit"} : PlainValue(gom, key)) =>
              IF ~Set(gom, "commit") /\ ~Set(gom, "tag") /\ ~Set(gom, "branch")
              THEN Inside(k) = {} /\ log[EndOf(k)].err = Nil
              ELSE /\ \A i \in By(k, {"vcs.Checkout"}) : Last(log[i].argv) = wanted
                   /\ By(k, {"vcs.Checkout"}) # {} \/ log[EndOf(k)].err = ErrUnsupportedVCS

C5_Witness ==
    \E k \in Calls("Checkout") :
        LET gom == allGoms[log[k].gom]
        IN /\ Set(gom, "branch") /\ Set(gom, "tag") /\ Set(gom, "commit")
           /\ \A key \in {"branch", "tag", "commit"} : PlainValue(gom, key)
           /\ \E i \in Inside(k) : log[i].ev = "exec" /\ Last(log[i].argv) = <<"cm">>

(* C6, as stated: when Clone has completed the fork relocation (copy and
   delete both succeeded), src/<fork> does not exist and src/<target> holds
   every path that existed under src/<fork> before the relocation.  Read in
   the state Clone returns in. *)
C6_ForkRelocated ==
    \A k \in Calls("Clone") :
        LET gom == allGoms[log[k].gom]
            cps == {i \in Inside(k) : log[i].ev = "copy" /\ log[i].err = Nil}
            rms == {i \in Inside(k) : log[i].ev = "rm" /\ log[i].err = Nil}
        IN (EndOf(k) = Len(log) /\ Set(gom, "fork") /\ cps # {} /\ rms # {}) =>
              LET src == SrcDir(gom.options["fork"][2])
                  dst == SrcDir(TargetIdentity(gom))
              IN /\ ~Exists(fs, src)
                 /\ \A c \in cps : \A q \in log[c].seen : Join(dst, Rel(q, src)) \in fs

\* the same, for a fork and a target of which neither is a prefix of the other:
\* C6 fails on no other pair
C6_WhenIdentitiesDisjoint ==
    \A k \in Calls("Clone") :
        LET gom == allGoms[log[k].gom]
            cps == {i \in Inside(k) : log[i].ev = "copy" /\ log[i].err = Nil}
            rms == {i \in Inside(k) : log[i].ev = "rm" /\ log[i].err = Nil}
        IN (/\ EndOf(k) = Len(log) /\ Set(gom, "fork") /\ cps # {} /\ rms # {}
            /\ ~IsPrefix(gom.options["fork"][2], TargetIdentity(gom))
            /\ ~IsPrefix(TargetIdentity(gom), gom.options["fork"][2])) =>
              LET src == SrcDir(gom.options["fork"][2])
                  dst == SrcDir(TargetIdentity(gom))
              IN /\ ~Exists(fs, src)
                 /\ \A c \in cps : \A q \in log[c].seen : Join(dst, Rel(q, src)) \in fs

(* C7, as stated: the directory Checkout runs Sync in and the directory Build
   runs the install command in are both src/<target identity>, the target
   option if present and the name otherwise. *)
C7_TargetDirectory ==
    \A i \in DOMAIN log :
        log[i].by \in {"vcs.Checkout", "vcs.Update", "Build"} =>
            log[i].dir = SrcDir(TargetIdentity(allGoms[log[i].gom]))

(* C8: once the workspace is set up, install operates on exactly the
   dependencies that pass the filter (no group option or the group matches,
   and no goos option or the OS matches), in manifest order: no Clone, Checkout or Build is ever called on another
   dependency, and when install returns nil each retained dependency has been
   fetched, pinned and built once.  A dependency with neither option is
   retained; one whose group does not match is never touched. *)
C8_Filter ==
    LET retained == {g \in DOMAIN allGoms :
                        /\ (~Set(allGoms[g], "group") \/ matchEnv(allGoms[g].options["group"]))
                        /\ (~Set(allGoms[g], "goos") \/ matchOS(allGoms[g].options["goos"]))}
    IN /\ gopath = vendorFolder =>
              /\ {goms[k] : k \in DOMAIN goms} = retained
              /\ \A k1, k2 \in DOMAIN goms : k1 < k2 => goms[k1] < goms[k2]
       /\ \A i \in DOMAIN log : log[i].gom # 0 => log[i].gom \in retained
       /\ (pc = "done" /\ ret = Nil) =>
              \A g \in retained : \A op \in {"Clone", "Checkout", "Build"} :
                  Cardinality({k \in Calls(op) : log[k].gom = g}) = 1
       /\ \A g \in DOMAIN allGoms :
              /\ (~Set(allGoms[g], "group") /\ ~Set(allGoms[g], "goos")) => g \in retained
              /\ (Set(allGoms[g], "group") /\ ~matchEnv(allGoms[g].options["group"]))
                    => \A i \in DOMAIN log : log[i].gom # g

\* a manifest of an excluded dependency followed by a retained one with a goos
\* option, installed to the end
C8_Witness ==
    /\ pc = "done" /\ ret = Nil
    /\ Len(allGoms) = 2
    /\ Set(allGoms[1], "group") /\ ~matchEnv(allGoms[1].options["group"])
    /\ Set(allGoms[1], "branch")
    /\ Set(allGoms[2], "goos")
    /\ goms = <<2>>
    /\ Calls("Build") # {}

(* C9: when a revision is requested and no directory along the dependency's
   path under src/ contains .git, .hg or .bzr, Checkout returns the
   unsupported-VCS error, executes no command, and install returns that
   error. *)
C9_UnsupportedVCS ==
    \A k \in Calls("Checkout") :
        LET gom == allGoms[log[k].gom]
            bare == \A p \in Prefixes(gom.name) : \A mk \in Markers :
                        ~Exists(fs, Join(SrcDir(p), <<mk>>))
        IN (commit_or_branch_or_tag(gom) # EmptyString /\ bare) =>
              /\ Inside(k) = {}
              /\ log[EndOf(k)].ev = "ret"
              /\ log[EndOf(k)].err = ErrUnsupportedVCS
              /\ pc = "done"
              /\ ret = ErrUnsupportedVCS

C9_Witness ==
    \E k \in Calls("Checkout") :
        /\ Set(allGoms[log[k].gom], "tag")
        /\ SrcDir(allGoms[log[k].gom].name) \in fs
        /\ log[EndOf(k)].err = ErrUnsupportedVCS
        /\ ret = ErrUnsupportedVCS

(* C10, as stated: for every dependency whose custom-command or private step
   did not fail, Clone executes the default fetch command exactly once, after
   that step, as go get -d <extra arguments> <fetched identity>; and for a
   dependency with no command, private or fork option Clone returns exactly
   the fetch command's result. *)
C10_DefaultFetchAlways ==
    \A k \in Calls("Clone") :
        LET gom == allGoms[log[k].gom]
            j == EndOf(k)
            step == By(k, {"command", "clonePrivate", "pullPrivate"})
            fetches == By(k, {"fetch"})
            stepFailed == \/ \E i \in step : log[i].err # Nil
                          \/ log[j].ev = "panic" /\ log[j].by = "clonePrivate"
        IN ~stepFailed =>
              /\ Cardinality(fetches) = 1
              /\ \A i \in fetches :
                    /\ \A st \in step : st < i
                    /\ log[i].ev = "run"
                    /\ log[i].argv = <<W("go"), W("get"), W("-d")>> \o args
                                        \o <<FetchedIdentity(gom)>>
                    /\ (~Set(gom, "command") /\ ~Set(gom, "private") /\ ~Set(gom, "fork"))
                          => (log[j].ev = "ret" /\ log[j].err = log[i].err)

\* the same, for the Clone calls in which getFork returns: C10 fails on no other
C10_WhenGetForkReturns ==
    \A k \in Calls("Clone") :
        LET gom == allGoms[log[k].gom]
            j == EndOf(k)
            step == By(k, {"command", "clonePrivate", "pullPrivate"})
            fetches == By(k, {"fetch"})
            stepFailed == \/ \E i \in step : log[i].err # Nil
                          \/ log[j].ev = "panic" /\ log[j].by = "clonePrivate"
        IN (~stepFailed /\ ~(log[j].ev = "panic" /\ log[j].by = "getFork")) =>
              /\ Cardinality(fetches) = 1
              /\ \A i \in fetches :
                    /\ \A st \in step : st < i
                    /\ log[i].argv = <<W("go"), W("get"), W("-d")>> \o args
                                        \o <<FetchedIdentity(gom)>>
                    /\ (~Set(gom, "command") /\ ~Set(gom, "private") /\ ~Set(gom, "fork"))
                          => (log[j].ev = "ret" /\ log[j].err = log[i].err)

\* the claims' reading of the private-repository case
ParsesTruthy(gom, key) ==
    /\ Set(gom, key)
    /\ gom.options[key][1] = "string"
    /\ Len(gom.options[key][2]) = 1
    /\ lower(gom.options[key][2][1]) \in {"t", "true", "y", "yes", "on", "1"}
PrivateCase(gom) == ~Set(gom, "command") /\ ParsesTruthy(gom, "private")
Destination(gom) == SrcDir(FetchedIdentity(gom))

(* C11, as stated: for a dependency with no command option and a truthy
   private option, when src/<identity> exists as Clone runs, Clone executes
   git --work-tree=<dir> --git-dir=<dir>/.git pull origin and no clone. *)
C11_PullWhenPresent ==
    \A k \in Calls("Clone") :
        LET gom == allGoms[log[k].gom]
            dir == Destination(gom)
        IN (PrivateCase(gom) /\ dir \in log[k].seen) =>
              /\ By(k, {"clonePrivate"}) = {}
              /\ Cardinality(By(k, {"pullPrivate"})) = 1
              /\ \A i \in By(k, {"pullPrivate"}) :
                    log[i].argv = <<W("git"), Join(<<"--work-tree=">>, dir),
                                    Join(Join(<<"--git-dir=">>, dir), <<".git">>),
                                    W("pull"), W("origin")>>

(* C12, as stated: when the default fetch command fails, Clone returns that
   error at once: no copy from fork to target, no deletion of the fork
   directory, and the error Clone returns is the fetch error. *)
C12_FetchErrorReturned ==
    \A k \in Calls("Clone") :
        \A i \in By(k, {"fetch"}) :
            log[i].err # Nil =>
                /\ By(k, {"mustCopyDir", "RemoveAll"}) = {}
                /\ log[EndOf(k)].err = log[i].err

\* the same, for the dependencies without a fork option: C12 fails on no other
C12_WhenNoFork ==
    \A k \in Calls("Clone") :
        \A i \in By(k, {"fetch"}) :
            (log[i].err # Nil /\ ~Set(allGoms[log[k].gom], "fork")) =>
                /\ By(k, {"mustCopyDir", "RemoveAll"}) = {}
                /\ log[EndOf(k)].err = log[i].err

(* C13, as stated: when the custom fetch command fails, or the private clone
   or pull fails, Clone returns that error at once and executes neither the
   default fetch nor a relocation; and when a command option is present no
   private clone or pull is executed. *)
C13_Original ==
    \A k \in Calls("Clone") :
        /\ \A i \in By(k, {"command", "clonePrivate", "pullPrivate"}) :
              log[i].err # Nil =>
                  /\ log[EndOf(k)].err = log[i].err
                  /\ By(k, {"fetch", "mustCopyDir", "RemoveAll"}) = {}
        /\ Set(allGoms[log[k].gom], "command") => By(k, {"clonePrivate", "pullPrivate"}) = {}

(* C13, amended: when the custom fetch command fails, or the private clone or
   pull fails, Clone returns that error at once and executes neither the
   default fetch nor a relocation; and when a command option with a string
   value is present no private clone or pull is executed. *)
C13_Amended ==
    \A k \in Calls("Clone") :
        /\ \A i \in By(k, {"command", "clonePrivate", "pullPrivate"}) :
              log[i].err # Nil =>
                  /\ i = EndOf(k) - 1
                  /\ log[EndOf(k)].ev = "ret"
                  /\ log[EndOf(k)].err = log[i].err
                  /\ By(k, {"fetch", "mustCopyDir", "RemoveAll"}) = {}
        /\ (Set(allGoms[log[k].gom], "command")
              /\ allGoms[log[k].gom].options["command"][1] = "string")
             => By(k, {"clonePrivate", "pullPrivate"}) = {}

\* the custom command of a dependency that also has a truthy private option fails
C13_Witness ==
    \E k \in Calls("Clone") :
        /\ Set(allGoms[log[k].gom], "command")
        /\ ParsesTruthy(allGoms[log[k].gom], "private")
        /\ \E i \in By(k, {"command"}) : log[i].err # Nil /\ ret = log[i].err

(* C14: no Sync performs more than two Checkouts or more than one Update; when
   the first Checkout and the Update both fail, Sync returns the Update's error
   and attempts no second Checkout; when the Update succeeds, Sync returns
   exactly what the second Checkout returned, nil or error. *)
C14_SyncUpdateOutcome ==
    \A k \in Calls("Checkout") :
        LET cs == By(k, {"vcs.Checkout"})
            us == By(k, {"vcs.Update"})
        IN /\ Cardinality(cs) <= 2
           /\ Cardinality(us) <= 1
           /\ \A u \in us :
                 IF log[u].err # Nil
                 THEN /\ cs = {Min(cs)}
                      /\ Min(cs) < u
                      /\ log[Min(cs)].err # Nil
                      /\ EndOf(k) = u + 1
                      /\ log[EndOf(k)].err = log[u].err
                 ELSE /\ Cardinality(cs) = 2
                      /\ Min(cs) < u /\ u < Max(cs)
                      /\ EndOf(k) = Max(cs) + 1
                      /\ log[EndOf(k)].err = log[Max(cs)].err

\* a Sync has returned the error of its failed Update after one failed Checkout
C14_Witness ==
    \E k \in Calls("Checkout") :
        \E u \in By(k, {"vcs.Update"}) :
            /\ log[u].ev = "exec"
            /\ log[u].err # Nil
            /\ Cardinality(By(k, {"vcs.Checkout"})) = 1
            /\ pc = "done"
            /\ ret = log[u].err

\* the claims' reading of control metadata: the prefixes of a name that carry a
\* marker in the workspace f, the shallowest of them, the variant its markers select
Marked(f, name) == {q \in Prefixes(name) : \E mk \in Markers : Join(SrcDir(q), <<mk>>) \in f}
Shallowest(f, name) == CHOOSE q \in Marked(f, name) : \A r \in Marked(f, name) : Len(q) <= Len(r)
Variant(f, q) ==
    IF Join(SrcDir(q), <<".git">>) \in f THEN git
    ELSE IF Join(SrcDir(q), <<".hg">>) \in f THEN hg
    ELSE bzr

(* C15: when a revision is requested and control metadata is present at one or
   more prefixes of the dependency's name, Checkout performs exactly one Sync,
   with the selected revision, in the full dependency directory and never in
   the prefix; the variant is that of the shallowest prefix carrying a marker,
   and at one prefix git is preferred to hg and hg to bzr. *)
C15_OneSyncAtFullDirectory ==
    \A k \in Calls("Checkout") :
        LET gom == allGoms[log[k].gom]
            rev == commit_or_branch_or_tag(gom)
            f == log[k].seen
            variant == Variant(f, Shallowest(f, gom.name))
            cs == By(k, {"vcs.Checkout"})
            us == By(k, {"vcs.Update"})
        IN (rev # EmptyString /\ Marked(f, gom.name) # {}) =>
              /\ k + 1 \in cs
              /\ Inside(k) = cs \cup us
              /\ Cardinality(cs) <= 2 /\ Cardinality(us) <= 1
              /\ us \subseteq {k + 2}
              /\ cs \subseteq {k + 1, k + 3}
              /\ k + 3 \in cs => k + 2 \in us
              /\ \A i \in Inside(k) : log[i].dir = SrcDir(gom.name)
              /\ \A i \in cs : log[i].argv = Append(variant.checkout, rev)
              /\ \A i \in us : log[i].argv = variant.update

\* a Sync ran in a/b with the variant of the marker at a, a/b carrying another
C15_Witness ==
    \E k \in Calls("Checkout") :
        LET gom == allGoms[log[k].gom]
            f == log[k].seen
        IN /\ Cardinality(Marked(f, gom.name)) = 2
           /\ Variant(f, Shallowest(f, gom.name)) # Variant(f, gom.name)
           /\ log[k + 1].ev = "exec"
           /\ log[k + 1].dir = SrcDir(gom.name)
           /\ log[k + 1].argv[1] = Variant(f, Shallowest(f, gom.name)).checkout[1]

\* the claims' two forms of the private repository's URL
HttpsUrl(name) == Join(Join(<<"https://">>, name), <<".git">>)
SshUrl(name) == <<"git@", name[1], ":", name[2], name[3]>>
ClonedPrivately(k, gom) ==
    /\ By(k, {"pullPrivate"}) = {}
    /\ Cardinality(By(k, {"clonePrivate"})) = 1
    /\ \A i \in By(k, {"clonePrivate"}) :
          /\ log[i].ev = "run"
          /\ Len(log[i].argv) = 4
          /\ SubSeq(log[i].argv, 1, 2) = <<W("git"), W("clone")>>
          /\ log[i].argv[4] = Destination(gom)
          /\ log[i].argv[3] = IF ParsesTruthy(gom, "https") THEN HttpsUrl(gom.name)
                              ELSE IF Len(gom.name) >= 3 THEN SshUrl(gom.name)
                              ELSE <<>>

(* C16, as stated: for a dependency with no command option and a truthy
   private option whose destination directory does not exist when Clone runs,
   Clone executes one clone and no pull into that directory, with the URL
   https://<name>.git when https parses truthy and with
   git@<host>:<organization>/<project> otherwise, an https value outside the
   vocabulary included. *)
C16_PrivateClone ==
    \A k \in Calls("Clone") :
        LET gom == allGoms[log[k].gom]
        IN (PrivateCase(gom) /\ Destination(gom) \notin log[k].seen) => ClonedPrivately(k, gom)

\* the same, when the URL is the https one or the name has its three segments:
\* C16 fails on no other dependency
C16_WhenUrlCanBeBuilt ==
    \A k \in Calls("Clone") :
        LET gom == allGoms[log[k].gom]
        IN (/\ PrivateCase(gom)
            /\ Destination(gom) \notin log[k].seen
            /\ (ParsesTruthy(gom, "https") \/ Len(gom.name) >= 3)) => ClonedPrivately(k, gom)

\* the scoped external invocations of the log: the commands executed in a
\* directory, and the switches to a directory that failed
Scoped ==
    {i \in DOMAIN log : log[i].by \in {"vcs.Checkout", "vcs.Update", "Build"}
                          /\ log[i].ev \notin {"call", "ret"}}
CallOf(i) == Max({k \in DOMAIN log : log[k].ev = "call" /\ k < i})

(* C17: after any sequence of scoped external invocations, successful or not,
   the working directory is the one before the sequence; a command is executed
   in its target directory only; and when the switch to the target directory
   fails the command is not executed, the error is returned and the working
   directory is unchanged. *)
C17_WorkingDirectoryRestored ==
    /\ cwd = ProjectDir
    /\ \A i \in DOMAIN log : log[i].ev \in {"call", "ret", "run", "copy", "rm"} => log[i].dir = ProjectDir
    /\ \A i \in Scoped :
          LET k == CallOf(i)
              target == SrcDir(allGoms[log[k].gom].name)
          IN /\ log[i].ev \in {"exec", "chdir"}
             /\ log[i].dir = target
             /\ log[i].ev = "exec" <=> isDir(log[k].seen, target)
             /\ log[i].ev = "chdir" =>
                   /\ log[i].err = i
                   /\ log[k].op = "Build" => (log[i + 1].ev = "ret" /\ log[i + 1].err = i)
                   /\ \A j \in Scoped : CallOf(j) = k => log[j].ev = "chdir"

\* a failed Checkout, a successful Update, a successful Checkout and a failed
\* Build have all run in a/b or x/y, and install has returned
C17_Witness ==
    /\ pc = "done"
    /\ cwd = ProjectDir
    /\ \E k \in Calls("Checkout") :
          /\ log[k + 1].ev = "exec" /\ log[k + 1].err # Nil
          /\ log[k + 2].ev = "exec" /\ log[k + 2].err = Nil
          /\ log[k + 3].ev = "exec" /\ log[k + 3].err = Nil
          /\ log[k + 1].dir # ProjectDir
    /\ \E k \in Calls("Build") : log[k + 1].ev = "exec" /\ log[k + 1].err # Nil

(* C18: the relocation is a copy followed by a deletion, with no rollback.
   When the copy fails, Clone returns the copy error and the fork directory is
   not deleted: no deletion is attempted and what was under it is still there
   when Clone returns.  When the copy succeeds and the deletion fails, Clone
   returns the deletion error, and the fork directory and the target directory
   both exist when it returns. *)
C18_CopyThenDelete ==
    \A k \in Calls("Clone") :
        LET gom == allGoms[log[k].gom]
            cps == {i \in Inside(k) : log[i].ev = "copy"}
            rms == {i \in Inside(k) : log[i].ev = "rm"}
        IN /\ Cardinality(cps) <= 1 /\ Cardinality(rms) <= 1
           /\ \A r \in rms : \E c \in cps : c < r /\ log[c].err = Nil
           /\ \A c \in cps :
                 /\ log[c].argv = <<SrcDir(TargetIdentity(gom)), SrcDir(FetchedIdentity(gom))>>
                 /\ log[c].err # Nil =>
                       /\ rms = {}
                       /\ log[EndOf(k)].ev = "ret" /\ log[EndOf(k)].err = log[c].err
                       /\ EndOf(k) = Len(log) => log[c].seen \subseteq fs
           /\ \A r \in rms :
                 /\ log[r].argv = <<SrcDir(FetchedIdentity(gom))>>
                 /\ log[r].err # Nil =>
                       /\ log[EndOf(k)].ev = "ret" /\ log[EndOf(k)].err = log[r].err
                       /\ EndOf(k) = Len(log) =>
                             /\ isDir(fs, SrcDir(FetchedIdentity(gom)))
                             /\ isDir(fs, SrcDir(TargetIdentity(gom)))
                             /\ \A c \in cps : log[c].seen \subseteq fs

\* the deletion has just failed after a copy from x/y to another directory, and
\* install returns its error with both directories in place
C18_Witness ==
    \E k \in Calls("Clone") :
        LET gom == allGoms[log[k].gom]
        IN /\ EndOf(k) = Len(log)
           /\ Set(gom, "fork")
           /\ FetchedIdentity(gom) # TargetIdentity(gom)
           /\ \E r \in Inside(k) : log[r].ev = "rm" /\ log[r].err # Nil /\ ret = log[r].err
           /\ Join(SrcDir(FetchedIdentity(gom)), <<"main.go">>) \in fs
           /\ Join(SrcDir(TargetIdentity(gom)), <<"main.go">>) \in fs

\* the claims' reading of "still exists": the return of the Clone of dependency
\* g, and the paths that existed then, which the next call of the log has seen
CloneReturn(g) == CHOOSE j \in Returned("Clone", g) : TRUE
SeenAfter(j) == log[j + 1].seen
LaterCalls == Calls("Checkout") \cup Calls("Build")

(* C19, as stated: once the fetch phase has succeeded for every surviving
   dependency, the directory that a dependency's Checkout and Build address,
   if it was there when that dependency's Clone returned, is still a directory
   when its Checkout and its Build are called: the relocation of one
   dependency's fork never deletes the directory fetched for another. *)
C19_FetchedDirectoriesSurvive ==
    \A k \in LaterCalls :
        LET g == log[k].gom
            dir == SrcDir(allGoms[g].name)
        IN isDir(SeenAfter(CloneReturn(g)), dir) => isDir(log[k].seen, dir)

\* the same, for a dependency of whose name no other dependency's fork is a
\* prefix: C19 fails on no other
C19_WhenNoForkIsAPrefix ==
    \A k \in LaterCalls :
        LET g == log[k].gom
            dir == SrcDir(allGoms[g].name)
        IN (/\ isDir(SeenAfter(CloneReturn(g)), dir)
            /\ \A h \in DOMAIN allGoms \ {g} :
                  Set(allGoms[h], "fork") =>
                      ~IsPrefix(FetchedIdentity(allGoms[h]), allGoms[g].name))
             => isDir(log[k].seen, dir)

(* C20, as stated: whatever the name and the option map, every Clone, Checkout
   and Build ends by returning nil or an error to install, and none ends the
   process abnormally. *)
C20_AlwaysReturns ==
    /\ pc # "panicked"
    /\ \A op \in {"Clone", "Checkout", "Build"} : \A k \in Calls(op) :
          /\ log[EndOf(k)].ev = "ret"
          /\ log[EndOf(k)].op = op

\* the process ends abnormally in Clone only, on a fork option that is not a
\* string or on the SSH clone of a private dependency whose name has fewer than
\* three segments: C20 fails nowhere else
C20_PanicsOnlyThere ==
    \A i \in DOMAIN log :
        log[i].ev = "panic" =>
            LET gom == allGoms[log[i].gom]
            IN /\ log[i].op = "Clone"
               /\ i = Len(log) /\ pc = "panicked"
               /\ \/ log[i].by = "getFork" /\ Set(gom, "fork") /\ gom.options["fork"][1] # "string"
                  \/ /\ log[i].by = "clonePrivate"
                     /\ ParsesTruthy(gom, "private")
                     /\ Set(gom, "command") => gom.options["command"][1] # "string"
                     /\ ~ParsesTruthy(gom, "https")
                     /\ Len(gom.name) < 3

====
